---- MODULE Spec2Model ----
(***************************************************************************)
(* Bearer-token verification and scope gate of the automation-platform     *)
(* adapter (src/ansible_auth_mcp.py).                                       *)
(*                                                                         *)
(* Python values are modelled as follows.                                  *)
(*   str      a TLA+ string; a str that the code takes apart (the          *)
(*            Authorization header, the scope claim) is a sequence of      *)
(*            chunks: a chunk is one whitespace character or a run of      *)
(*            non-whitespace characters, and adjacent runs concatenate.    *)
(*   dict     a function whose domain is the set of keys.                  *)
(*   None     the string "None" (what str(None) formats to).               *)
(*   a call   [ok |-> TRUE, value |-> v] when it returns v,                *)
(*            [ok |-> FALSE, exc |-> [cls, msg]] when it raises.           *)
(***************************************************************************)
EXTENDS Integers, Sequences, FiniteSets, TLC

VARIABLES
    now,       \* the clock, in seconds
    pc,        \* where the tool call in flight stands ("idle" when none is)
    tool,      \* the tool called
    req,       \* its request context and arguments
    identity,  \* the credential (decoded payload) the call holds, or Nil
    fault,     \* the exception the try block raised, or Nil
    sent,      \* the upstream AAP requests the call has issued
    log,       \* the library calls the call has made
    result     \* what the tool returned or raised to its caller, or Nil

vars == <<now, pc, tool, req, identity, fault, sent, log, result>>

\* The Insights adapter (src/redhat_insights_mcp.py)
VARIABLES
    clock,             \* datetime.utcnow(), in seconds
    advances,          \* how often the clock has been advanced
    access_token,      \* _access_token: the cached token, or None
    token_expires_at,  \* _token_expires_at: <<>> for None, or <<instant>>
    issued,            \* the authority's record of the tokens it issued that are still held
    started,           \* how many tool calls have been started
    task               \* the tool call each caller has in flight

ivars == <<clock, advances, access_token, token_expires_at, issued, started, task>>

\* Start of the two adapter processes, and handle_scope_error on its own
VARIABLES
    environ,    \* os.environ: the variables that are set, with their values
    process,    \* how far each adapter's module has been loaded
    handling    \* a call of handle_scope_error: its argument and outcome, or Nil

svars == <<environ, process, handling>>

allvars == <<vars, ivars, svars>>

(***************************************************************************)
(* Configuration (module level of ansible_auth_mcp.py)                     *)
(***************************************************************************)
SERVER_NAME == "ansible-automation-platform"
SERVER_VERSION == "1.0.0"
SERVER_URI == "http://localhost:8001"
AUTH_SERVER_URI == "http://localhost:8002"
JWT_SECRET == "demo-secret-key-change-in-production"
leeway == 21600

None == "None"
Nil == [nil |-> TRUE]

(***************************************************************************)
(* Bounds of the model                                                     *)
(***************************************************************************)
\* The clock runs from leeway to leeway + MaxTicks seconds.
MaxTicks == 2

\* Insights adapter: concurrent callers, tool calls started, clock advances
NumCallers == 2
MaxStarted == 2
MaxAdvances == 2

(***************************************************************************)
(* Python helpers                                                          *)
(***************************************************************************)
Return(v) == [ok |-> TRUE, value |-> v]
Raise(cls, msg) == [ok |-> FALSE, exc |-> [cls |-> cls, msg |-> msg]]

\* An exception message: plain text that is not JSON, or the text json.dumps
\* produced for a value.
Text(s) == [kind |-> "text", text |-> s]

\* dict.get(key, default)
Get(d, k, default) == IF k \in DOMAIN d THEN d[k] ELSE default

\* value in list
In(x, list) == \E i \in 1..Len(list) : list[i] = x

\* PyJWT's exception classes all derive from InvalidTokenError.
IsInstance(cls, base) ==
    \/ cls = base
    \/ /\ base = "InvalidTokenError"
       /\ cls \in {"ExpiredSignatureError", "DecodeError", "InvalidSignatureError",
                   "InvalidAlgorithmError", "InvalidAudienceError"}
    \/ base = "Exception"

\* A prefix test that compares lengths only
StartsWith_length(s, prefix) ==
    Len(s) >= Len(prefix)

\* str.startswith(prefix) on chunk sequences
StartsWith(s, prefix) ==
    /\ Len(s) >= Len(prefix)
    /\ SubSeq(s, 1, Len(prefix)) = prefix

\* str.split(sep) with an explicit one-character separator: every occurrence of
\* sep ends a field, so consecutive separators give empty fields.
RECURSIVE SplitOn(_, _, _, _)
SplitOn(s, sep, i, cur) ==
    IF i > Len(s) THEN <<cur>>
    ELSE IF s[i] = sep THEN <<cur>> \o SplitOn(s, sep, i + 1, "")
    ELSE SplitOn(s, sep, i + 1, cur \o s[i])

split_sep(s, sep) == SplitOn(s, sep, 1, "")

Whitespace == {" ", "\t", "\n"}

\* str.split() without arguments: fields are the maximal runs of
\* non-whitespace; runs of whitespace separate them and give no empty field.
RECURSIVE SplitWs(_, _, _)
SplitWs(s, i, cur) ==
    IF i > Len(s) THEN (IF cur = "" THEN <<>> ELSE <<cur>>)
    ELSE IF s[i] \in Whitespace
         THEN (IF cur = "" THEN <<>> ELSE <<cur>>) \o SplitWs(s, i + 1, "")
         ELSE SplitWs(s, i + 1, cur \o s[i])

\* A split on the space character only, as str.split(" ") does
split_on_space(s) == SplitOn(s, " ", 1, "")

split(s) == SplitWs(s, 1, "")

(***************************************************************************)
(* json.dumps / json.loads on exception messages                           *)
(***************************************************************************)
\* The text json.dumps writes for a value of the given JSON type. Texts are
\* kept apart from plain messages by their kind: json.loads parses the first
\* and raises JSONDecodeError on the second.
Json(type, v) == [kind |-> "json", type |-> type, value |-> v]

json_dumps(d) == Json("object", d)

json_loads(msg) ==
    IF msg.kind = "json" THEN Return([type |-> msg.type, value |-> msg.value])
    ELSE Raise("JSONDecodeError", Text("Expecting value"))

(***************************************************************************)
(* Tokens and jwt.decode (PyJWT 2.x)                                       *)
(***************************************************************************)
\* A compact token: the algorithm its header names, its signature (what it
\* was really signed with) and its claims (a dict).
HMAC(alg, key) == [alg |-> alg, key |-> key]
NoSignature == [alg |-> "none", key |-> ""]

\* In a header, TOKEN stands for the compact serialization of the request's
\* token; any other chunk is text that is no token.
TOKEN == "<token>"

\* jwt.decode(token, key, algorithms=..., options={"verify_aud": False},
\* leeway=...): segments, then algorithm allow-list, then signature, then the
\* registered time claims; aud is not checked (verify_aud False) and no issuer
\* is passed. exp is validated only when the claim is present, and a token is
\* expired when exp <= now - leeway.
\* A decode without leeway
jwt_decode_no_leeway(tokstr, tok, key, algorithms, lw, t) ==
    IF tokstr # TOKEN
    THEN Raise("DecodeError", Text("Not enough segments"))
    ELSE IF tok.alg \notin algorithms
    THEN Raise("InvalidAlgorithmError", Text("The specified alg value is not allowed"))
    ELSE IF tok.sig # HMAC(tok.alg, key)
    THEN Raise("InvalidSignatureError", Text("Signature verification failed"))
    ELSE IF "exp" \in DOMAIN tok.claims /\ tok.claims["exp"] <= t
    THEN Raise("ExpiredSignatureError", Text("Signature has expired"))
    ELSE Return(tok.claims)

\* A decode that accepts whatever algorithm the token's header names
jwt_decode_any_alg(tokstr, tok, key, algorithms, lw, t) ==
    IF tokstr # TOKEN
    THEN Raise("DecodeError", Text("Not enough segments"))
    ELSE IF tok.sig # HMAC(tok.alg, key)
    THEN Raise("InvalidSignatureError", Text("Signature verification failed"))
    ELSE IF "exp" \in DOMAIN tok.claims /\ tok.claims["exp"] <= t - lw
    THEN Raise("ExpiredSignatureError", Text("Signature has expired"))
    ELSE Return(tok.claims)

\* A decode with verify_aud left on and no audience given: PyJWT then rejects
\* every token that carries an aud claim.
jwt_decode_verify_aud(tokstr, tok, key, algorithms, lw, t) ==
    IF tokstr # TOKEN
    THEN Raise("DecodeError", Text("Not enough segments"))
    ELSE IF tok.alg \notin algorithms
    THEN Raise("InvalidAlgorithmError", Text("The specified alg value is not allowed"))
    ELSE IF tok.sig # HMAC(tok.alg, key)
    THEN Raise("InvalidSignatureError", Text("Signature verification failed"))
    ELSE IF "exp" \in DOMAIN tok.claims /\ tok.claims["exp"] <= t - lw
    THEN Raise("ExpiredSignatureError", Text("Signature has expired"))
    ELSE IF "aud" \in DOMAIN tok.claims
    THEN Raise("InvalidAudienceError", Text("Invalid audience"))
    ELSE Return(tok.claims)

\* A decode with options={"require": ["exp"]}: a token without exp is
\* rejected.
jwt_decode_require_exp(tokstr, tok, key, algorithms, lw, t) ==
    IF tokstr # TOKEN
    THEN Raise("DecodeError", Text("Not enough segments"))
    ELSE IF tok.alg \notin algorithms
    THEN Raise("InvalidAlgorithmError", Text("The specified alg value is not allowed"))
    ELSE IF tok.sig # HMAC(tok.alg, key)
    THEN Raise("InvalidSignatureError", Text("Signature verification failed"))
    ELSE IF "exp" \notin DOMAIN tok.claims
    THEN Raise("InvalidTokenError", Text("Token is missing the \"exp\" claim"))
    ELSE IF tok.claims["exp"] <= t - lw
    THEN Raise("ExpiredSignatureError", Text("Signature has expired"))
    ELSE Return(tok.claims)

jwt_decode(tokstr, tok, key, algorithms, lw, t) ==
    IF tokstr # TOKEN
    THEN Raise("DecodeError", Text("Not enough segments"))
    ELSE IF tok.alg \notin algorithms
    THEN Raise("InvalidAlgorithmError", Text("The specified alg value is not allowed"))
    ELSE IF tok.sig # HMAC(tok.alg, key)
    THEN Raise("InvalidSignatureError", Text("Signature verification failed"))
    ELSE IF "exp" \in DOMAIN tok.claims /\ tok.claims["exp"] <= t - lw
    THEN Raise("ExpiredSignatureError", Text("Signature has expired"))
    ELSE Return(tok.claims)

(***************************************************************************)
(* verify_token_from_context                                               *)
(***************************************************************************)
BearerPrefix == <<"Bearer", " ">>

\* Claim checks without the audience check
validate_claims_no_aud(payload) ==
    IF Get(payload, "iss", None) # AUTH_SERVER_URI
    THEN Raise("Exception",
               Text("Invalid issuer: expected " \o AUTH_SERVER_URI \o ", got "
                    \o Get(payload, "iss", None)))
    ELSE Return(payload)

\* Claim checks that test the issuer before the audience
validate_claims_issuer_first(payload) ==
    IF Get(payload, "iss", None) # AUTH_SERVER_URI
    THEN Raise("Exception",
               Text("Invalid issuer: expected " \o AUTH_SERVER_URI \o ", got "
                    \o Get(payload, "iss", None)))
    ELSE IF Get(payload, "aud", None) # SERVER_URI
    THEN Raise("Exception",
               Text("Invalid audience: expected " \o SERVER_URI \o ", got "
                    \o Get(payload, "aud", None)))
    ELSE Return(payload)

\* The explicit audience and issuer checks on the decoded payload
\* (lines 73-84)
validate_claims(payload) ==
    IF Get(payload, "aud", None) # SERVER_URI
    THEN Raise("Exception",
               Text("Invalid audience: expected " \o SERVER_URI \o ", got "
                    \o Get(payload, "aud", None)))
    ELSE IF Get(payload, "iss", None) # AUTH_SERVER_URI
    THEN Raise("Exception",
               Text("Invalid issuer: expected " \o AUTH_SERVER_URI \o ", got "
                    \o Get(payload, "iss", None)))
    ELSE Return(payload)

\* The except clauses (lines 86-91): ExpiredSignatureError first, then any
\* other InvalidTokenError; anything else propagates as it is.
translate_decode_error(d) ==
    IF IsInstance(d.exc.cls, "ExpiredSignatureError")
    THEN Raise("Exception", Text("Token expired"))
    ELSE IF IsInstance(d.exc.cls, "InvalidTokenError")
    THEN Raise("Exception", Text("Invalid token"))
    ELSE d

\* ctx is [headers |-> the request's headers (a dict), token |-> the token
\* the Authorization header carries]. headers.get("authorization") is None
\* when the key is absent; `not auth_header` holds of None and of "".
\* The outcome also lists the library calls made.
verify_token_from_context(ctx, t) ==
    LET present == "authorization" \in DOMAIN ctx.headers
        auth_header == IF present THEN ctx.headers["authorization"] ELSE <<>>
    IN
    IF ~present \/ auth_header = <<>> \/ ~StartsWith(auth_header, BearerPrefix)
    THEN Raise("Exception", Text("Missing or invalid Authorization header"))
             @@ [calls |-> <<>>]
    ELSE
      LET token == split_sep(auth_header, " ")[2]
          d == jwt_decode(token, ctx.token, JWT_SECRET, {"HS256"}, leeway, t)
      IN
      (IF ~d.ok THEN translate_decode_error(d) ELSE validate_claims(d.value))
          @@ [calls |-> <<"jwt.decode">>]

(***************************************************************************)
(* check_scope, get_scope_description, handle_scope_error                  *)
(***************************************************************************)
scope_descriptions ==
    ("read:files" :> "Read access to Ansible resources (inventories, job templates, jobs)")
    @@ ("execute:commands" :> "Execute and manage Ansible operations (run jobs, create projects)")

\* A lookup whose fallback is the bare scope name
get_scope_description_bare(scope) ==
    Get(scope_descriptions, scope, scope)

get_scope_description(scope) ==
    Get(scope_descriptions, scope, "Access to " \o scope)

\* The error_info mapping of check_scope (lines 101-109)
error_info(required_scope, user_scopes) ==
    [error_type |-> "insufficient_scope",
     error |-> "Insufficient scope. Required: " \o required_scope,
     required_scope |-> required_scope,
     user_scopes |-> user_scopes,
     scope_upgrade_endpoint |-> AUTH_SERVER_URI \o "/api/upgrade-scope",
     scope_description |-> get_scope_description(required_scope),
     upgrade_instructions |->
         "Use the scope_upgrade_endpoint to request additional permissions"]

\* A check_scope that verifies the token and never tests the scope
check_scope_unchecked(ctx, required_scope, t) ==
    verify_token_from_context(ctx, t)

\* A check_scope that returns the identity it logged (email and parsed
\* scopes) in place of the decoded payload
check_scope_summary(ctx, required_scope, t) ==
    LET v == verify_token_from_context(ctx, t) IN
    IF ~v.ok THEN v
    ELSE
      LET user == v.value
          user_scopes == split(Get(user, "scope", <<>>))
      IN
      IF ~In(required_scope, user_scopes)
      THEN Raise("Exception", json_dumps(error_info(required_scope, user_scopes)))
               @@ [calls |-> v.calls]
      ELSE Return([email |-> Get(user, "email", None), scope |-> user_scopes])
               @@ [calls |-> v.calls]

\* A check_scope with a hierarchy: manage:ansible grants every scope.
check_scope_hierarchy(ctx, required_scope, t) ==
    LET v == verify_token_from_context(ctx, t) IN
    IF ~v.ok THEN v
    ELSE
      LET user == v.value
          user_scopes == split(Get(user, "scope", <<>>))
      IN
      IF ~In(required_scope, user_scopes) /\ ~In("manage:ansible", user_scopes)
      THEN Raise("Exception", json_dumps(error_info(required_scope, user_scopes)))
               @@ [calls |-> v.calls]
      ELSE Return(user) @@ [calls |-> v.calls]

check_scope(ctx, required_scope, t) ==
    LET v == verify_token_from_context(ctx, t) IN
    IF ~v.ok THEN v
    ELSE
      LET user == v.value
          user_scopes == split(Get(user, "scope", <<>>))
      IN
      IF ~In(required_scope, user_scopes)
      THEN Raise("Exception", json_dumps(error_info(required_scope, user_scopes)))
               @@ [calls |-> v.calls]
      ELSE Return(user) @@ [calls |-> v.calls]

ScopeErrorKeys ==
    {"error", "required_scope", "user_scopes", "scope_upgrade_endpoint",
     "scope_description", "upgrade_instructions"}

\* The fallback mapping of handle_scope_error (lines 150-153)
Fallback(error_msg) == [success |-> FALSE, error |-> error_msg]

handle_scope_error(error_msg) ==
    LET parsed == json_loads(error_msg) IN
    IF ~parsed.ok THEN Return(Fallback(error_msg))
    ELSE
      LET error_data == parsed.value.value IN
      IF parsed.value.type # "object"
      THEN Raise("AttributeError", Text("object has no attribute 'get'"))
      ELSE IF Get(error_data, "error_type", None) = "insufficient_scope"
      THEN IF ~(ScopeErrorKeys \subseteq DOMAIN error_data)
           THEN Return(Fallback(error_msg))
           ELSE Return(
             [success |-> FALSE,
              error_type |-> "insufficient_scope",
              error |-> error_data["error"],
              required_scope |-> error_data["required_scope"],
              user_scopes |-> error_data["user_scopes"],
              scope_upgrade_endpoint |-> error_data["scope_upgrade_endpoint"],
              scope_description |-> error_data["scope_description"],
              upgrade_instructions |-> error_data["upgrade_instructions"],
              upgrade_example |->
                [method |-> "POST",
                 url |-> error_data["scope_upgrade_endpoint"],
                 headers |-> ("Content-Type" :> "application/json"),
                 body |-> [scopes |-> <<error_data["required_scope"]>>]]])
      ELSE Return(Fallback(error_msg))

(***************************************************************************)
(* The tools and their required scopes                                     *)
(***************************************************************************)
ReadTools ==
    {"list_inventories", "get_inventory", "job_status", "job_logs",
     "list_inventory_sources", "get_inventory_source", "list_job_templates",
     "get_job_template", "list_jobs", "list_recent_jobs"}

ExecuteTools == {"run_job", "sync_inventory_source"}

ManageTools ==
    {"create_project", "create_job_template", "create_inventory_source",
     "update_inventory_source", "delete_inventory_source", "create_inventory",
     "delete_inventory", "associate_credential_with_template",
     "update_job_template", "delete_job_template"}

DeleteTools == {"delete_inventory_source", "delete_inventory", "delete_job_template"}

\* The tools that call check_scope
GatedTools == ReadTools \cup ExecuteTools \cup ManageTools

\* The tools that call verify_token_from_context only
InfoTools == {"get_server_info", "get_oauth_metadata", "health_check", "list_tool_scopes"}

Tools == GatedTools \cup InfoTools

\* The scopes the adapter advertises, passed to check_scope
RequiredScope_advertised(t) ==
    IF t \in ReadTools THEN "read:files" ELSE "execute:commands"

\* The scope each gated tool passes to check_scope
RequiredScope(t) ==
    IF t \in ReadTools THEN "read:ansible"
    ELSE IF t \in ExecuteTools THEN "execute:ansible"
    ELSE "manage:ansible"

(***************************************************************************)
(* make_request and the tool bodies                                        *)
(***************************************************************************)
\* Python values a tool returns, tagged with their type
PyDict(d) == [type |-> "dict", value |-> d]
PyList(l) == [type |-> "list", value |-> l]
PyStr(x) == [type |-> "str", value |-> x]

\* up is what the HTTP client does: it returns a response or raises.
make_request(up) ==
    IF ~up.ok THEN up
    ELSE
      LET response == up.value IN
      IF response.status_code \notin {200, 201}
      THEN Return(PyStr("Error " \o ToString(response.status_code) \o ": " \o response.text))
      ELSE IF response.content_type = "application/json"
      THEN Return(response.json)
      ELSE Return(PyStr(response.text))

valid_sources ==
    {"file", "constructed", "scm", "ec2", "gce", "azure_rm", "vmware", "satellite6",
     "openstack", "rhv", "controller", "insights", "terraform", "openshift_virtualization"}

\* result["key"] = value on a dict
Put(d, k, v) == (k :> v) @@ d

\* What a gated tool makes of make_request's result (the lines after the await)
Shape(t, res, usr) ==
    LET email == Get(usr, "email", None) IN
    IF t = "list_inventories"
    THEN IF res.type = "dict" THEN PyDict(Put(res.value, "authenticated_user", email))
         ELSE IF res.type = "list"
         THEN PyDict([inventories |-> res.value, authenticated_user |-> email])
         ELSE PyDict([data |-> res.value, authenticated_user |-> email])
    ELSE IF t = "job_logs"
    THEN PyDict([job_id |-> "<job_id>", logs |-> res.value, authenticated_user |-> email])
    ELSE IF t \in DeleteTools
    THEN PyDict([success |-> TRUE, message |-> "deleted successfully",
                 authenticated_user |-> email])
    ELSE IF res.type # "dict" THEN res
    ELSE IF t = "run_job"
    THEN PyDict(Put(Put(res.value, "authenticated_user", email),
                    "template_id", "<template_id>"))
    ELSE IF t = "list_recent_jobs"
    THEN PyDict(Put(Put(res.value, "authenticated_user", email),
                    "time_filter", "<time_filter>"))
    ELSE PyDict(Put(res.value, "authenticated_user", email))

\* The except clause of a tool. Gated tools return
\* `await handle_scope_error(ctx, str(e))`; list_recent_jobs awaits the
\* function object itself, which raises TypeError inside the handler; the
\* server-info tools build the mapping in place.
ExceptClause(t, e) ==
    IF t \in InfoTools
    THEN Return(PyDict([success |-> FALSE, error |-> e.msg]))
    ELSE IF t = "list_recent_jobs"
    THEN Raise("TypeError", Text("object function can't be used in 'await' expression"))
    ELSE LET h == handle_scope_error(e.msg) IN
         IF h.ok THEN Return(PyDict(h.value)) ELSE h

\* The try block of a gated tool after check_scope returned usr:
\* [out |-> what the tool returns or raises, sent |-> requests issued].
GatedBody(t, args, usr, up) ==
    IF t = "create_inventory_source" /\ args.source \notin valid_sources
    THEN [out |-> Return(PyDict([success |-> FALSE,
                                 error |-> "Invalid source type",
                                 authenticated_user |-> Get(usr, "email", None)])),
          sent |-> 0]
    ELSE IF t = "create_inventory_source" /\ args.credential_id = 0
    THEN [out |-> Return(PyDict([success |-> FALSE,
                                 error |-> "Credential is required to create an inventory source.",
                                 authenticated_user |-> Get(usr, "email", None)])),
          sent |-> 0]
    ELSE
      LET r == make_request(up) IN
      [out |-> IF r.ok THEN Return(Shape(t, r.value, usr)) ELSE ExceptClause(t, r.exc),
       sent |-> 1]

\* The try block of a server-info tool after verify_token_from_context
InfoBody(t, usr) ==
    LET email == Get(usr, "email", None)
        user_scopes == split(Get(usr, "scope", <<>>))
    IN
    IF t = "get_server_info"
    THEN PyDict([server_name |-> SERVER_NAME, server_version |-> SERVER_VERSION,
                 server_uri |-> SERVER_URI, auth_server_uri |-> AUTH_SERVER_URI,
                 authenticated_user |-> email, user_scopes |-> user_scopes,
                 message |-> "Authentication successful - you have access to this AAP MCP server"])
    ELSE IF t = "get_oauth_metadata"
    THEN PyDict([resource |-> SERVER_URI, authorization_servers |-> <<AUTH_SERVER_URI>>,
                 scopes_supported |-> <<"read:files", "execute:commands">>,
                 bearer_methods_supported |-> <<"header">>,
                 authenticated_user |-> email])
    ELSE IF t = "health_check"
    THEN PyDict([status |-> "healthy", server_name |-> SERVER_NAME,
                 server_version |-> SERVER_VERSION, checked_by |-> email])
    ELSE PyDict([server_name |-> SERVER_NAME, server_version |-> SERVER_VERSION,
                 available_scopes |-> <<"read:files", "execute:commands">>,
                 user_scopes |-> user_scopes, checked_by |-> email])

(***************************************************************************)
(* Inputs                                                                  *)
(***************************************************************************)
EmptyDict == [k \in {} |-> None]

\* A claim that may be absent: <<>> or <<value>>
Opt(k, o) == IF o = <<>> THEN EmptyDict ELSE k :> o[1]

MkClaims(aud, iss, exp, scope, email) ==
    Opt("aud", aud) @@ Opt("iss", iss) @@ Opt("exp", exp)
        @@ Opt("scope", scope) @@ Opt("email", email)

MkToken(alg, sig, claims) == [alg |-> alg, sig |-> sig, claims |-> claims]

AudChoices == {<<>>, <<SERVER_URI>>, <<"https://wrong">>}
IssChoices == {<<>>, <<AUTH_SERVER_URI>>, <<"https://evil">>}

\* exp absent, exp = 1 (ahead of, at, and behind now - leeway as the clock
\* runs), exp far in the future
ExpChoices == {<<>>, <<1>>, <<2 * leeway>>}

ScopeRX == <<"read:ansible", " ", "execute:ansible">>

\* Scope claims: absent, empty, single, several, the advertised names, runs
\* of mixed whitespace, and a longer name that has a required scope as prefix
ScopeChoices ==
    {<<>>, <<<<>>>>, <<<<"read:ansible">>>>, <<ScopeRX>>, <<<<"manage:ansible">>>>,
     <<<<"read:files", " ", "execute:commands">>>>,
     <<<<" ", "execute:ansible", "\t", " ", "manage:ansible", "\n">>>>,
     <<<<"read:ansible", ":extra">>>>,
     <<<<"manage:ansible", " ", "read:ansible", " ", "execute:ansible">>>>}

EmailChoices == {<<>>, <<"alice@example.com">>}

\* How a token can be signed: properly; with another HMAC algorithm; with
\* alg none and no signature; with another key; with the signature stripped
GoodSig == [alg |-> "HS256", sig |-> HMAC("HS256", JWT_SECRET)]

BadSigs ==
    {[alg |-> "HS512", sig |-> HMAC("HS512", JWT_SECRET)],
     [alg |-> "none", sig |-> NoSignature],
     [alg |-> "HS256", sig |-> HMAC("HS256", "attacker-key")],
     [alg |-> "HS256", sig |-> NoSignature]}

Tokens ==
    {MkToken(GoodSig.alg, GoodSig.sig, MkClaims(a, i, e, <<ScopeRX>>, <<"alice@example.com">>)) :
        a \in AudChoices, i \in IssChoices, e \in ExpChoices}
    \cup
    {MkToken(GoodSig.alg, GoodSig.sig, MkClaims(<<SERVER_URI>>, <<AUTH_SERVER_URI>>, e, s, m)) :
        e \in {<<1>>, <<2 * leeway>>}, s \in ScopeChoices, m \in EmailChoices}
    \cup
    {MkToken(b.alg, b.sig, MkClaims(a, i, e, <<ScopeRX>>, <<"alice@example.com">>)) :
        b \in BadSigs, a \in {<<SERVER_URI>>, <<"https://wrong">>},
        i \in {<<AUTH_SERVER_URI>>, <<"https://evil">>}, e \in {<<1>>, <<2 * leeway>>}}

GoodToken ==
    MkToken(GoodSig.alg, GoodSig.sig,
            MkClaims(<<SERVER_URI>>, <<AUTH_SERVER_URI>>, <<2 * leeway>>,
                     <<<<"manage:ansible", " ", "read:ansible", " ", "execute:ansible">>>>,
                     <<"alice@example.com">>))

\* Authorization headers that carry no usable bearer token
OtherHeaders ==
    {<<>>,
     <<"Basic", " ", TOKEN>>,
     <<"bearer", " ", TOKEN>>,
     <<"Bearer">>,
     <<TOKEN>>,
     <<"Bearer", " ">>,
     <<"Bearer", " ", " ", TOKEN>>,
     <<"Bearer", " ", "not-a-token">>}

Contexts ==
    {[headers |-> ("authorization" :> <<"Bearer", " ", TOKEN>>), token |-> k] : k \in Tokens}
    \cup {[headers |-> ("authorization" :> <<"Bearer", " ", TOKEN, " ", "trailing">>),
           token |-> GoodToken]}
    \cup {[headers |-> ("authorization" :> h), token |-> GoodToken] : h \in OtherHeaders}
    \cup {[headers |-> EmptyDict, token |-> GoodToken]}

NoArgs == [source |-> "scm", credential_id |-> 1]

ArgChoices(t) ==
    IF t = "create_inventory_source"
    THEN {NoArgs, [source |-> "bogus", credential_id |-> 1],
          [source |-> "scm", credential_id |-> 0]}
    ELSE {NoArgs}

\* What the upstream AAP API may answer to one request
Response(status, ctype, body, text) ==
    Return([status_code |-> status, content_type |-> ctype, json |-> body, text |-> text])

Upstream ==
    {Response(200, "application/json", PyDict([count |-> "1"]), "{}"),
     Response(201, "application/json", PyList(<<"item">>), "[]"),
     Response(200, "text/plain", PyStr("log line"), "log line"),
     Response(404, "application/json", PyDict([detail |-> "Not found."]), "Not found."),
     Raise("ConnectError", Text("All connection attempts failed"))}

(***************************************************************************)
(* Module load of the two adapters (src/ansible_auth_mcp.py lines 28-47,   *)
(* src/redhat_insights_mcp.py lines 25-38)                                 *)
(***************************************************************************)
Adapters == {"ansible_auth_mcp", "redhat_insights_mcp"}

\* os.getenv(name): None when the variable is not set
getenv(env, name) == Get(env, name, None)

\* `not v` for a value that is None or a str
Not(v) == v = None \/ v = ""

\* The test that precedes the raise in each module
missing_credential_unset(a, env) ==
    IF a = "ansible_auth_mcp"
    THEN getenv(env, "AAP_TOKEN") = None
    ELSE getenv(env, "INSIGHTS_CLIENT_ID") = None
            \/ getenv(env, "INSIGHTS_CLIENT_SECRET") = None

missing_credential(a, env) ==
    IF a = "ansible_auth_mcp"
    THEN Not(getenv(env, "AAP_TOKEN"))
    ELSE Not(getenv(env, "INSIGHTS_CLIENT_ID")) \/ Not(getenv(env, "INSIGHTS_CLIENT_SECRET"))

\* The ValueError each module raises
credential_error(a) ==
    IF a = "ansible_auth_mcp"
    THEN Raise("ValueError", Text("AAP_TOKEN is required"))
    ELSE Raise("ValueError", Text("INSIGHTS_CLIENT_ID and INSIGHTS_CLIENT_SECRET are required"))

\* The tools of the Insights adapter that are modelled
InsightsTools == {"test_authentication", "list_systems"}

\* The tools the module's decorators register
ToolsOf(a) == IF a = "ansible_auth_mcp" THEN Tools ELSE InsightsTools

\* A module not yet executed, and one executed to its end and serving
Unloaded == [pc |-> "loading", mcp |-> FALSE, tools |-> {}, error |-> Nil]
Loaded(a) == [pc |-> "serving", mcp |-> TRUE, tools |-> ToolsOf(a), error |-> Nil]

\* A variable that may be unset, empty or set
Settings == {<<>>, <<"">>, <<"s3cret">>}

Environs ==
    {Opt("AAP_TOKEN", t) @@ Opt("INSIGHTS_CLIENT_ID", i) @@ Opt("INSIGHTS_CLIENT_SECRET", k) :
        t \in Settings, i \in Settings, k \in Settings}

FullEnviron ==
    Opt("AAP_TOKEN", <<"s3cret">>) @@ Opt("INSIGHTS_CLIENT_ID", <<"s3cret">>)
        @@ Opt("INSIGHTS_CLIENT_SECRET", <<"s3cret">>)

(***************************************************************************)
(* The state after both adapters are loaded: no tool call in flight, no    *)
(* token cached (src/redhat_insights_mcp.py lines 34-35)                   *)
(***************************************************************************)
Callers == 1 .. NumCallers

\* A caller of the Insights adapter with no call in flight
Idle ==
    [pc |-> "idle", tool |-> "", phase |-> "", token |-> None,
     posts |-> 0, sent |-> <<>>, result |-> Nil]

\* No tool call in flight, nothing cached
Quiet ==
    /\ now = leeway
    /\ pc = "idle"
    /\ tool = ""
    /\ req = Nil
    /\ identity = Nil
    /\ fault = Nil
    /\ sent = 0
    /\ log = <<>>
    /\ result = Nil
    /\ clock = 0
    /\ advances = 0
    /\ access_token = None
    /\ token_expires_at = <<>>
    /\ issued = {}
    /\ started = 0
    /\ task = [c \in Callers |-> Idle]

\* Both adapters loaded and serving, with their credentials set
Init ==
    /\ Quiet
    /\ environ = FullEnviron
    /\ process = [a \in Adapters |-> Loaded(a)]
    /\ handling = Nil

\* Time passes between calls.
Tick ==
    /\ pc = "idle"
    /\ now < leeway + MaxTicks
    /\ now' = now + 1
    /\ UNCHANGED <<pc, tool, req, identity, fault, sent, log, result>>
    /\ UNCHANGED <<ivars, svars>>

\* A caller invokes tool t: the call starts with nothing verified.
Invoke(t, c, a) ==
    /\ pc = "idle"
    /\ pc' = "Unauthenticated"
    /\ tool' = t
    /\ req' = [ctx |-> c, args |-> a]
    /\ UNCHANGED <<now, identity, fault, sent, log, result>>
    /\ UNCHANGED <<ivars, svars>>

\* verify_token_from_context, called by check_scope (line 95) or by a
\* server-info tool
Verify ==
    /\ pc = "Unauthenticated"
    /\ LET v == verify_token_from_context(req.ctx, now) IN
       /\ log' = log \o <<"verify">> \o v.calls
       /\ IF v.ok
          THEN /\ identity' = v.value
               /\ pc' = "Authenticated"
               /\ UNCHANGED fault
          ELSE /\ fault' = v.exc
               /\ pc' = "Failed"
               /\ UNCHANGED identity
    /\ UNCHANGED <<now, tool, req, sent, result>>
    /\ UNCHANGED <<ivars, svars>>

\* The rest of check_scope: the scope test on the verified credential
Authorize ==
    /\ pc = "Authenticated"
    /\ tool \in GatedTools
    /\ LET a == check_scope(req.ctx, RequiredScope(tool), now) IN
       /\ log' = log \o <<"authorize">>
       /\ IF a.ok
          THEN /\ identity' = a.value
               /\ pc' = "Permitted"
               /\ UNCHANGED fault
          ELSE /\ fault' = a.exc
               /\ pc' = "Denied"
               /\ UNCHANGED identity
    /\ UNCHANGED <<now, tool, req, sent, result>>
    /\ UNCHANGED <<ivars, svars>>

\* The body of a gated tool: at most one upstream request, then the return.
Serve(up) ==
    /\ pc = "Permitted"
    /\ LET b == GatedBody(tool, req.args, identity, up) IN
       /\ result' = b.out
       /\ sent' = sent + b.sent
       /\ log' = IF b.sent > 0 THEN log \o <<"make_request">> ELSE log
    /\ pc' = "done"
    /\ UNCHANGED <<now, tool, req, identity, fault>>
    /\ UNCHANGED <<ivars, svars>>

Inform_scoped ==
    /\ pc = "Authenticated"
    /\ tool \in InfoTools
    /\ LET a == check_scope(req.ctx, "read:ansible", now) IN
       result' = IF a.ok THEN Return(InfoBody(tool, identity))
                 ELSE ExceptClause(tool, a.exc)
    /\ pc' = "done"
    /\ UNCHANGED <<now, tool, req, identity, fault, sent, log>>
    /\ UNCHANGED <<ivars, svars>>

\* The body of a server-info tool
Inform ==
    /\ pc = "Authenticated"
    /\ tool \in InfoTools
    /\ result' = Return(InfoBody(tool, identity))
    /\ pc' = "done"
    /\ UNCHANGED <<now, tool, req, identity, fault, sent, log>>
    /\ UNCHANGED <<ivars, svars>>

\* The except clause after verification or authorization raised
Recover ==
    /\ pc \in {"Failed", "Denied"}
    /\ result' = ExceptClause(tool, fault)
    /\ pc' = "done"
    /\ UNCHANGED <<now, tool, req, identity, fault, sent, log>>
    /\ UNCHANGED <<ivars, svars>>

\* The call is over; nothing of it is kept.
Complete ==
    /\ pc = "done"
    /\ pc' = "idle"
    /\ tool' = ""
    /\ req' = Nil
    /\ identity' = Nil
    /\ fault' = Nil
    /\ sent' = 0
    /\ log' = <<>>
    /\ result' = Nil
    /\ UNCHANGED now
    /\ UNCHANGED <<ivars, svars>>

Next ==
    \/ Tick
    \/ \E t \in Tools : \E c \in Contexts : \E a \in ArgChoices(t) : Invoke(t, c, a)
    \/ Verify
    \/ Authorize
    \/ \E up \in Upstream : Serve(up)
    \/ Inform
    \/ Recover
    \/ Complete

(***************************************************************************)
(* The Insights adapter: the cached access token                           *)
(* (src/redhat_insights_mcp.py).  Instants and lifetimes are in seconds.   *)
(***************************************************************************)
\* The seconds taken off a token's lifetime when it is cached (line 68)
renewal_buffer == 60

\* The lifetime assumed when the response names none (line 67)
default_expires_in == 300

\* The steps by which the clock advances
TimeSteps == {30, 240}

\* The tokens the authority hands out, in the order it issues them
TokenNames == <<"tok1", "tok2", "tok3", "tok4", "tok5", "tok6", "tok7", "tok8">>

\* A response of the authority's token endpoint: status, text, parsed body
TokenResponse(status, text, body) ==
    [status_code |-> status, text |-> text, json |-> body]

\* The lifetimes the authority grants; <<>> when it names none, and the
\* token then lives default_expires_in seconds
Lifetimes == {<<>>, <<120>>, <<30>>}

\* What the token endpoint can answer to one exchange: a token tok with a
\* lifetime, a 200 without access_token, or a refusal
Grant(tok, ttl) ==
    TokenResponse(200, "{...}",
                  IF ttl = <<>> THEN [access_token |-> tok]
                  ELSE [access_token |-> tok, expires_in |-> ttl[1]])

\* A 200 response whose expires_in is JSON null
NullLifetime(tok) ==
    TokenResponse(200, "{...}", [access_token |-> tok, expires_in |-> None])

\* v is a number (and not None or a str): it prints as one.
IsNumber(v) == ToString(v) \in {ToString(n) : n \in 0 .. 2 * default_expires_in}

Refusals ==
    {TokenResponse(401, "invalid_client", [error |-> "invalid_client"]),
     TokenResponse(200, "{...}", [error |-> "unsupported"])}

\* Line 45: the cached token may be used at instant t.
cache_valid_inclusive(tok, exp, t) ==
    /\ tok # None
    /\ tok # ""
    /\ exp # <<>>
    /\ t <= exp[1]

cache_valid_never(tok, exp, t) == FALSE

cache_valid_forever(tok, exp, t) ==
    /\ tok # None
    /\ tok # ""
    /\ exp # <<>>

cache_valid(tok, exp, t) ==
    /\ tok # None
    /\ tok # ""
    /\ exp # <<>>
    /\ t < exp[1]

\* Lines 61-70: what get_access_token does with the response it awaited, at
\* instant t.  cache is the pair of globals after it; the assignment of
\* line 65 precedes the one of line 68.
store_token_no_buffer(response, tok, exp, t) ==
    IF response.status_code # 200
    THEN [out |-> Raise("Exception",
                        Text("Failed to get access token: "
                             \o ToString(response.status_code) \o " " \o response.text)),
          access_token |-> tok, token_expires_at |-> exp]
    ELSE LET token_data == response.json IN
         IF "access_token" \notin DOMAIN token_data
         THEN [out |-> Raise("KeyError", Text("'access_token'")),
               access_token |-> tok, token_expires_at |-> exp]
         ELSE LET expires_in == Get(token_data, "expires_in", default_expires_in) IN
              [out |-> Return(token_data["access_token"]),
               access_token |-> token_data["access_token"],
               token_expires_at |-> <<t + expires_in>>]

store_token_any_status(response, tok, exp, t) ==
    LET token_data == response.json IN
    IF "access_token" \notin DOMAIN token_data
    THEN [out |-> Return(None), access_token |-> tok, token_expires_at |-> exp]
    ELSE LET expires_in == Get(token_data, "expires_in", default_expires_in) IN
         [out |-> Return(token_data["access_token"]),
          access_token |-> token_data["access_token"],
          token_expires_at |-> <<t + expires_in - renewal_buffer>>]

store_token_forget(response, tok, exp, t) ==
    IF response.status_code # 200
    THEN [out |-> Raise("Exception",
                        Text("Failed to get access token: "
                             \o ToString(response.status_code) \o " " \o response.text)),
          access_token |-> None, token_expires_at |-> <<>>]
    ELSE LET token_data == response.json IN
         IF "access_token" \notin DOMAIN token_data
         THEN [out |-> Raise("KeyError", Text("'access_token'")),
               access_token |-> None, token_expires_at |-> <<>>]
         ELSE LET expires_in == Get(token_data, "expires_in", default_expires_in) IN
              IF ~IsNumber(expires_in)
              THEN [out |-> Raise("TypeError",
                                  Text("unsupported operand type(s) for -: 'NoneType' and 'int'")),
                    access_token |-> token_data["access_token"],
                    token_expires_at |-> exp]
              ELSE [out |-> Return(token_data["access_token"]),
                    access_token |-> token_data["access_token"],
                    token_expires_at |-> <<t + expires_in - renewal_buffer>>]

store_token_first_wins(response, tok, exp, t) ==
    IF response.status_code # 200
    THEN [out |-> Raise("Exception",
                        Text("Failed to get access token: "
                             \o ToString(response.status_code) \o " " \o response.text)),
          access_token |-> tok, token_expires_at |-> exp]
    ELSE LET token_data == response.json IN
         IF "access_token" \notin DOMAIN token_data
         THEN [out |-> Raise("KeyError", Text("'access_token'")),
               access_token |-> tok, token_expires_at |-> exp]
         ELSE IF tok # None /\ exp # <<>> /\ t < exp[1]
         THEN [out |-> Return(tok), access_token |-> tok, token_expires_at |-> exp]
         ELSE LET expires_in == Get(token_data, "expires_in", default_expires_in) IN
              [out |-> Return(token_data["access_token"]),
               access_token |-> token_data["access_token"],
               token_expires_at |-> <<t + expires_in - renewal_buffer>>]

store_token_keep_expiry(response, tok, exp, t) ==
    IF response.status_code # 200
    THEN [out |-> Raise("Exception",
                        Text("Failed to get access token: "
                             \o ToString(response.status_code) \o " " \o response.text)),
          access_token |-> tok, token_expires_at |-> exp]
    ELSE LET token_data == response.json IN
         IF "access_token" \notin DOMAIN token_data
         THEN [out |-> Raise("KeyError", Text("'access_token'")),
               access_token |-> tok, token_expires_at |-> exp]
         ELSE LET expires_in == Get(token_data, "expires_in", default_expires_in) IN
              [out |-> Return(token_data["access_token"]),
               access_token |-> token_data["access_token"],
               token_expires_at |-> IF exp # <<>> THEN exp
                                    ELSE <<t + expires_in - renewal_buffer>>]

store_token(response, tok, exp, t) ==
    IF response.status_code # 200
    THEN [out |-> Raise("Exception",
                        Text("Failed to get access token: "
                             \o ToString(response.status_code) \o " " \o response.text)),
          access_token |-> tok, token_expires_at |-> exp]
    ELSE LET token_data == response.json IN
         IF "access_token" \notin DOMAIN token_data
         THEN [out |-> Raise("KeyError", Text("'access_token'")),
               access_token |-> tok, token_expires_at |-> exp]
         ELSE LET expires_in == Get(token_data, "expires_in", default_expires_in) IN
              IF ~IsNumber(expires_in)
              THEN [out |-> Raise("TypeError",
                                  Text("unsupported operand type(s) for -: 'NoneType' and 'int'")),
                    access_token |-> token_data["access_token"],
                    token_expires_at |-> exp]
              ELSE [out |-> Return(token_data["access_token"]),
                    access_token |-> token_data["access_token"],
                    token_expires_at |-> <<t + expires_in - renewal_buffer>>]

\* Lines 75-78: the headers of an outbound API request
request_headers_cached(token) ==
    [Authorization |-> "Bearer " \o access_token, ContentType |-> "application/json"]

request_headers(token) ==
    [Authorization |-> "Bearer " \o token, ContentType |-> "application/json"]

\* Lines 83-86: what make_request returns for what the HTTP client did
insights_make_request(up) ==
    IF ~up.ok THEN up
    ELSE
      LET response == up.value IN
      IF response.status_code \notin {200, 201, 204}
      THEN Return(PyStr("Error " \o ToString(response.status_code) \o ": " \o response.text))
      ELSE IF response.content_type = "application/json"
           THEN Return(response.json)
           ELSE Return(PyStr(response.text))

\* What the API can answer to one request
InsightsUpstream ==
    {Response(200, "application/json", PyDict([total |-> "1"]), "{}"),
     Response(403, "text/plain", PyStr("Forbidden"), "Forbidden"),
     Raise("ConnectError", Text("All connection attempts failed"))}

\* What tool t hands to its caller when its body raised e: test_authentication
\* has an except clause (lines 97-98), the other tools have none.
insights_except_all(t, e) ==
    Return(PyDict([status |-> "error",
                   message |-> "Authentication failed: " \o e.msg.text]))

insights_except(t, e) ==
    IF t = "test_authentication"
    THEN Return(PyDict([status |-> "error",
                        message |-> "Authentication failed: " \o e.msg.text]))
    ELSE Raise(e.cls, e.msg)

\* What tool t returns when make_request returned res (line 96, line 109)
insights_return(t, res) ==
    IF t = "test_authentication"
    THEN Return(PyDict([status |-> "success",
                        message |-> "Authentication successful",
                        sample_data |-> res]))
    ELSE Return(res)

(***************************************************************************)
(* The state machine of the Insights adapter: concurrent tool calls on one *)
(* event loop.  A call runs from one await to the next without             *)
(* interleaving; the awaits are the token exchange (line 50) and the API   *)
(* request (line 81).                                                      *)
(***************************************************************************)
\* The tokens held after a step: the cached one and those the calls hold
Held(tok, tk) == {tok} \cup {tk[c].token : c \in Callers}

\* The authority's record, kept for the held tokens
Kept(iss, tok, tk) == {e \in iss : e.token \in Held(tok, tk)}

\* A token the authority has not handed to anyone who still holds one
Fresh(iss) ==
    TokenNames[CHOOSE i \in 1 .. Len(TokenNames) :
                 /\ \A e \in iss : e.token # TokenNames[i]
                 /\ \A j \in 1 .. i - 1 : \E e \in iss : e.token = TokenNames[j]]

\* Time passes, whatever the calls are doing.
Advance(d) ==
    /\ advances < MaxAdvances
    /\ advances' = advances + 1
    /\ clock' = clock + d
    /\ UNCHANGED <<access_token, token_expires_at, issued, started, task>>
    /\ UNCHANGED <<vars, svars>>

\* Caller c invokes tool t.  test_authentication first calls
\* get_access_token itself (line 93); the other tools enter make_request,
\* which calls it (line 74).
Call(c, t) ==
    /\ task[c].pc = "idle"
    /\ started < MaxStarted
    /\ started' = started + 1
    /\ task' = [task EXCEPT ![c] =
                  [Idle EXCEPT !.pc = "get_access_token", !.tool = t,
                               !.phase = IF t = "test_authentication"
                                         THEN "direct" ELSE "make_request"]]
    /\ UNCHANGED <<clock, advances, access_token, token_expires_at, issued>>
    /\ UNCHANGED <<vars, svars>>

\* Where call k stands once its get_access_token has returned or raised out
AfterToken(k, out) ==
    IF ~out.ok
    THEN [k EXCEPT !.pc = "done", !.result = insights_except(k.tool, out.exc)]
    ELSE IF k.phase = "direct"
    THEN [k EXCEPT !.pc = "get_access_token", !.phase = "make_request"]
    ELSE [k EXCEPT !.pc = "request", !.token = out.value]

\* get_access_token up to its await: the cached token is returned (line 46),
\* or the exchange is posted (line 50).
Enter(c) ==
    /\ task[c].pc = "get_access_token"
    /\ IF cache_valid(access_token, token_expires_at, clock)
       THEN task' = [task EXCEPT ![c] = AfterToken(@, Return(access_token))]
       ELSE task' = [task EXCEPT ![c].pc = "awaiting_token", ![c].posts = @ + 1]
    /\ UNCHANGED <<clock, advances, access_token, token_expires_at, issued, started>>
    /\ UNCHANGED <<vars, svars>>

\* What the authority can answer to an exchange: a token of its own with
\* one of the lifetimes, or no token
Answers(iss) == {Grant(Fresh(iss), ttl) : ttl \in Lifetimes} \cup Refusals

\* The authority's record of the token it hands out in response r at instant t
Record(r, t) ==
    IF r.status_code = 200 /\ "access_token" \in DOMAIN r.json
    THEN {[token |-> r.json["access_token"], at |-> t,
           lifetime |-> IF IsNumber(Get(r.json, "expires_in", default_expires_in))
                        THEN Get(r.json, "expires_in", default_expires_in)
                        ELSE default_expires_in]}
    ELSE {}

\* The authority answers the exchange of caller c with response r, and
\* get_access_token runs on from its await (lines 61-70).
Receive(c, r) ==
    /\ task[c].pc = "awaiting_token"
    /\ LET s == store_token(r, access_token, token_expires_at, clock) IN
       /\ access_token' = s.access_token
       /\ token_expires_at' = s.token_expires_at
       /\ task' = [task EXCEPT ![c] = AfterToken(@, s.out)]
    /\ issued' = Kept(issued \cup Record(r, clock), access_token', task')
    /\ UNCHANGED <<clock, advances, started>>
    /\ UNCHANGED <<vars, svars>>

\* make_request after get_access_token returned (lines 75-86) and the
\* tool's return
Request(c, up) ==
    /\ task[c].pc = "request"
    /\ LET res == insights_make_request(up) IN
       task' = [task EXCEPT
                  ![c].pc = "done",
                  ![c].sent = Append(@, request_headers(task[c].token)),
                  ![c].result = IF res.ok THEN insights_return(task[c].tool, res.value)
                                ELSE insights_except(task[c].tool, res.exc)]
    /\ UNCHANGED <<clock, advances, access_token, token_expires_at, issued, started>>
    /\ UNCHANGED <<vars, svars>>

\* The call of caller c is over.
Finish(c) ==
    /\ task[c].pc = "done"
    /\ task' = [task EXCEPT ![c] = Idle]
    /\ issued' = Kept(issued, access_token, task')
    /\ UNCHANGED <<clock, advances, access_token, token_expires_at, started>>
    /\ UNCHANGED <<vars, svars>>

NextInsights ==
    \/ \E d \in TimeSteps : Advance(d)
    \/ \E c \in Callers : \E t \in InsightsTools : Call(c, t)
    \/ \E c \in Callers : Enter(c)
    \/ \E c \in Callers : \E r \in Answers(issued) : Receive(c, r)
    \/ \E c \in Callers : \E up \in InsightsUpstream : Request(c, up)
    \/ \E c \in Callers : Finish(c)

\* The authority may also answer with a lifetime that is no number.
NextAnyAnswer ==
    \/ \E d \in TimeSteps : Advance(d)
    \/ \E c \in Callers : \E t \in InsightsTools : Call(c, t)
    \/ \E c \in Callers : Enter(c)
    \/ \E c \in Callers : \E r \in Answers(issued) : Receive(c, r)
    \/ \E c \in Callers : Receive(c, NullLifetime(Fresh(issued)))
    \/ \E c \in Callers : \E up \in InsightsUpstream : Request(c, up)
    \/ \E c \in Callers : Finish(c)

(***************************************************************************)
(* Start of the adapter processes                                          *)
(***************************************************************************)
InitStartup ==
    /\ Quiet
    /\ environ \in Environs
    /\ process = [a \in Adapters |-> Unloaded]
    /\ handling = Nil

\* The module runs up to its credential test and raises or goes on.
Load(a) ==
    /\ process[a].pc = "loading"
    /\ process' = [process EXCEPT ![a] =
                     IF missing_credential(a, environ)
                     THEN [@ EXCEPT !.pc = "refused", !.error = credential_error(a).exc]
                     ELSE [@ EXCEPT !.pc = "checked"]]
    /\ UNCHANGED <<vars, ivars, environ, handling>>

\* mcp = FastMCP(...)
Create(a) ==
    /\ process[a].pc = "checked"
    /\ process' = [process EXCEPT ![a].pc = "created", ![a].mcp = TRUE]
    /\ UNCHANGED <<vars, ivars, environ, handling>>

\* The @mcp.tool() decorators
Register(a) ==
    /\ process[a].pc = "created"
    /\ process' = [process EXCEPT ![a].pc = "registered", ![a].tools = ToolsOf(a)]
    /\ UNCHANGED <<vars, ivars, environ, handling>>

\* mcp.run(transport="stdio")
Run(a) ==
    /\ process[a].pc = "registered"
    /\ process' = [process EXCEPT ![a].pc = "serving"]
    /\ UNCHANGED <<vars, ivars, environ, handling>>

NextStartup ==
    \/ \E a \in Adapters : Load(a)
    \/ \E a \in Adapters : Create(a)
    \/ \E a \in Adapters : Register(a)
    \/ \E a \in Adapters : Run(a)

SpecStartup == InitStartup /\ [][NextStartup]_allvars

(***************************************************************************)
(* handle_scope_error applied to an error message                          *)
(***************************************************************************)
\* The message of a scope denial, as check_scope dumps it
DenialMessage == error_info("read:ansible", <<"read:files">>)

\* JSON objects whose error_type is insufficient_scope, with every choice of
\* the other keys present
DenialObjects ==
    {json_dumps([k \in K \cup {"error_type"} |-> DenialMessage[k]]) :
        K \in SUBSET ScopeErrorKeys}

\* JSON objects of another shape
OtherObjects ==
    {json_dumps([detail |-> "Not found."]),
     json_dumps([error_type |-> "invalid_token", error |-> "Token expired"]),
     json_dumps(<<>>)}

\* A JSON text that is not an object; its value is kept under its type.
Scalar(type, v) == Json(type, type :> v)

\* 0, 7, "denied", "insufficient_scope", [], ["error_type"], null, true
NonObjects ==
    {Scalar("number", <<0>>), Scalar("number", <<7>>),
     Scalar("string", <<"denied">>), Scalar("string", <<"insufficient_scope">>),
     Scalar("array", <<>>), Scalar("array", <<"error_type">>),
     Scalar("null", <<None>>), Scalar("boolean", <<TRUE>>)}

\* Messages that are not JSON
PlainTexts ==
    {Text("Missing or invalid Authorization header"), Text("Token expired"),
     Text("Invalid token"), Text("All connection attempts failed"), Text("")}

ErrorMessages == DenialObjects \cup OtherObjects \cup NonObjects \cup PlainTexts

InitScopeError ==
    /\ Quiet
    /\ environ = FullEnviron
    /\ process = [a \in Adapters |-> Loaded(a)]
    /\ handling \in {[pc |-> "called", error_msg |-> m] : m \in ErrorMessages}

\* handle_scope_error(ctx, error_msg) runs to its return or to the exception
\* that leaves it.
Handle ==
    /\ handling.pc = "called"
    /\ handling' = [pc |-> "left", error_msg |-> handling.error_msg,
                    out |-> handle_scope_error(handling.error_msg)]
    /\ UNCHANGED <<vars, ivars, environ, process>>

NextScopeError == Handle

SpecScopeError == InitScopeError /\ [][NextScopeError]_allvars

\* The automation-platform adapter alone: the Insights adapter stays as it
\* was started.
Spec == Init /\ [][Next]_allvars

\* The Insights adapter alone
SpecInsights == Init /\ [][NextInsights]_allvars

\* The Insights adapter with an authority that may answer with a lifetime
\* that is no number
SpecAnyAnswer == Init /\ [][NextAnyAnswer]_allvars

(***************************************************************************)
(* What the properties say about a request, stated on the request itself   *)
(***************************************************************************)
\* Verification of the call in flight is over.
Checked == pc \in {"Authenticated", "Failed", "Permitted", "Denied", "done"}

HasAuthHeader == "authorization" \in DOMAIN req.ctx.headers
AuthHeader == req.ctx.headers["authorization"]

\* The header is "Bearer " followed by something.
BearerScheme ==
    /\ HasAuthHeader
    /\ Len(AuthHeader) >= 2
    /\ AuthHeader[1] = "Bearer"
    /\ AuthHeader[2] = " "

\* The header is "Bearer <token>", possibly followed by " more".
Presented ==
    /\ BearerScheme
    /\ Len(AuthHeader) >= 3
    /\ AuthHeader[3] = "<token>"

ClaimOf(k) == IF k \in DOMAIN req.ctx.token.claims THEN req.ctx.token.claims[k] ELSE "None"

\* Signed with HS256 under the configured secret, and saying so
WellSigned ==
    /\ req.ctx.token.alg = "HS256"
    /\ req.ctx.token.sig = [alg |-> "HS256", key |-> "demo-secret-key-change-in-production"]

HasExp == "exp" \in DOMAIN req.ctx.token.claims

\* Seconds by which exp lies in the past (negative: in the future)
ExpAge == now - req.ctx.token.claims["exp"]

AudOk == ClaimOf("aud") = "http://localhost:8001"
IssOk == ClaimOf("iss") = "http://localhost:8002"

MissingError == [cls |-> "Exception", msg |-> Text("Missing or invalid Authorization header")]
MalformedError == [cls |-> "Exception", msg |-> Text("Invalid token")]
ExpiredError == [cls |-> "Exception", msg |-> Text("Token expired")]
AudienceError ==
    [cls |-> "Exception",
     msg |-> Text("Invalid audience: expected http://localhost:8001, got " \o ClaimOf("aud"))]
IssuerError ==
    [cls |-> "Exception",
     msg |-> Text("Invalid issuer: expected http://localhost:8002, got " \o ClaimOf("iss"))]

\* verify failed with error e: the call went to Failed and holds no credential.
FailedWith(e) ==
    /\ fault = e
    /\ identity = Nil
    /\ "authorize" \notin {log[i] : i \in 1..Len(log)}
    /\ pc \in {"Failed", "done"}

\* verify succeeded with the token's claims.
Accepted ==
    /\ identity = req.ctx.token.claims
    /\ pc = "Authenticated" => fault = Nil

\* The scope claim as the text it is ("" when absent)
ScopeText == IF "scope" \in DOMAIN req.ctx.token.claims THEN req.ctx.token.claims["scope"] ELSE <<>>

\* The whitespace-separated words of a text, in order: a word starts at a
\* non-whitespace chunk that is first or follows whitespace, and runs to the
\* last chunk before the next whitespace.
IsWs(x) == x \in {" ", "\t", "\n"}
WordStarts(s) == {i \in 1..Len(s) : ~IsWs(s[i]) /\ (i = 1 \/ IsWs(s[i - 1]))}
WordEnd(s, i) ==
    CHOOSE j \in i..Len(s) :
        /\ \A k \in i..j : ~IsWs(s[k])
        /\ j = Len(s) \/ IsWs(s[j + 1])
RECURSIVE Glue(_, _, _)
Glue(s, i, j) == IF i > j THEN "" ELSE s[i] \o Glue(s, i + 1, j)
NthStart(s, n) == CHOOSE i \in WordStarts(s) : Cardinality({j \in WordStarts(s) : j < i}) = n - 1
WordsOf(s) ==
    [n \in 1..Cardinality(WordStarts(s)) |-> Glue(s, NthStart(s, n), WordEnd(s, NthStart(s, n)))]

\* The scopes the credential grants
Granted == {WordsOf(ScopeText)[n] : n \in 1..Len(WordsOf(ScopeText))}

\* The credential passes every check of verify.
ValidCredential ==
    /\ Presented
    /\ WellSigned
    /\ HasExp => ExpAge < leeway
    /\ AudOk
    /\ IssOk

\* log holds a before b
Before(a, b) == \E i, j \in 1..Len(log) : i < j /\ log[i] = a /\ log[j] = b
Logged(a) == \E i \in 1..Len(log) : log[i] = a

(***************************************************************************)
(* Properties                                                              *)
(***************************************************************************)

\* C1: every call of a scope-gated tool starts unauthenticated with nothing
\* carried over, verifies, then authorizes; an upstream request is issued only
\* by a call in which verification succeeded and the tool's required scope is
\* among the credential's granted scopes, and authorization is evaluated only
\* on a credential that passed verification.
C1_RequestOnlyWhenPermitted ==
    /\ pc \in {"idle", "Unauthenticated"} =>
          identity = Nil /\ fault = Nil /\ sent = 0 /\ log = <<>> /\ result = Nil
    /\ sent > 0 =>
          /\ tool \in GatedTools
          /\ ValidCredential
          /\ RequiredScope(tool) \in Granted
          /\ Before("verify", "authorize")
          /\ Before("authorize", "make_request")
    /\ pc = "Permitted" => ValidCredential /\ RequiredScope(tool) \in Granted
    /\ (pc # "idle" /\ Logged("authorize")) => ValidCredential /\ Before("verify", "authorize")
    /\ pc = "Authenticated" => ValidCredential

C1_Witness == pc = "done" /\ sent > 0 /\ tool = "run_job"

\* The token decodes: bearer header, HS256 signature under the configured
\* secret, exp absent or less than leeway seconds in the past.
Decodes ==
    /\ Presented
    /\ WellSigned
    /\ HasExp => ExpAge < leeway

\* C2 as stated: every token whose aud differs from the server's URI fails
\* with the audience-mismatch error, whether or not its signature is valid.
C2_AsStated ==
    (Checked /\ Presented /\ ~AudOk) => FailedWith(AudienceError)

\* C2: every token that decodes (valid signature, not expired) and whose aud
\* differs from the server's URI fails with the audience-mismatch error, which
\* names the expected and the received audience.
C2_AudienceMismatch ==
    (Checked /\ Decodes /\ ~AudOk) => FailedWith(AudienceError)

C2_Witness ==
    /\ pc = "Failed"
    /\ Decodes
    /\ ClaimOf("aud") = "https://wrong"
    /\ IssOk
    /\ fault = AudienceError

\* C3 as stated: every token whose iss differs from the authority fails with
\* the issuer-mismatch error, and a mismatched issuer or audience never gives
\* the generic 'Invalid token'.
C3_AsStated ==
    /\ (Checked /\ Presented /\ ~IssOk) => FailedWith(IssuerError)
    /\ (Checked /\ Presented /\ (~AudOk \/ ~IssOk)) => fault # MalformedError

\* C3: every token that decodes and whose aud matches fails with the
\* issuer-mismatch error when its iss differs from the authority; a token that
\* decodes and has a mismatched aud or iss fails with the audience error (aud
\* mismatched) or else the issuer error, never with 'Invalid token'.
C3_IssuerMismatch ==
    /\ (Checked /\ Decodes /\ AudOk /\ ~IssOk) => FailedWith(IssuerError)
    /\ (Checked /\ Decodes /\ (~AudOk \/ ~IssOk)) =>
          /\ FailedWith(IF AudOk THEN IssuerError ELSE AudienceError)
          /\ fault # MalformedError

C3_Witness ==
    /\ pc = "Failed"
    /\ Decodes
    /\ AudOk
    /\ ClaimOf("iss") = "https://evil"
    /\ fault = IssuerError

\* C4 as stated: exp more than leeway seconds before now fails as expired;
\* exp at most leeway seconds in the past, or in the future, is accepted when
\* signature, audience and issuer are valid.
C4_AsStated ==
    (Checked /\ Presented /\ HasExp) =>
        /\ ExpAge > leeway => FailedWith(ExpiredError)
        /\ (ExpAge <= leeway /\ WellSigned /\ AudOk /\ IssOk) => Accepted

\* C4: a validly signed token whose exp is leeway seconds or more before now
\* fails as expired; one whose exp is less than leeway seconds in the past, or
\* in the future, is accepted when audience and issuer are valid.
C4_ExpiryLeeway ==
    (Checked /\ Presented /\ WellSigned /\ HasExp) =>
        /\ ExpAge >= leeway => FailedWith(ExpiredError)
        /\ (ExpAge < leeway /\ AudOk /\ IssOk) => Accepted /\ pc # "Failed"

C4_Witness ==
    /\ pc = "Authenticated"
    /\ Presented /\ WellSigned /\ HasExp
    /\ ExpAge > 0
    /\ ExpAge < leeway
    /\ Accepted

\* C5: when the Authorization header is absent, empty or does not start with
\* "Bearer ", verify fails with the missing-credential error and jwt.decode is
\* not called.
C5_MissingCredential ==
    (Checked /\ ~BearerScheme) =>
        FailedWith(MissingError) /\ ~Logged("jwt.decode")

C5_Witness ==
    /\ pc = "Failed"
    /\ HasAuthHeader
    /\ AuthHeader = <<"bearer", " ", "<token>">>
    /\ fault = MissingError
    /\ ~Logged("jwt.decode")

\* C6: a bearer token that is no token, names another algorithm than HS256, is
\* signed with another secret or carries no signature fails with the
\* malformed-credential error, whatever its claims; it is never accepted.
C6_MalformedCredential ==
    (Checked /\ BearerScheme /\ (~Presented \/ ~WellSigned)) =>
        FailedWith(MalformedError)

C6_Witness ==
    /\ pc = "Failed"
    /\ Presented
    /\ req.ctx.token.alg = "HS512"
    /\ req.ctx.token.sig.key = "demo-secret-key-change-in-production"
    /\ AudOk /\ IssOk /\ HasExp /\ ExpAge < 0
    /\ fault = MalformedError

\* C7: when the required scope is one of the whitespace-separated words of the
\* verified credential's scope claim, check_scope succeeds and returns the
\* decoded payload unchanged.
C7_AuthorizeReturnsCredential ==
    (pc \in {"Permitted", "Denied"} /\ RequiredScope(tool) \in Granted) =>
        /\ pc = "Permitted"
        /\ identity = req.ctx.token.claims
        /\ fault = Nil

C7_Witness ==
    /\ pc = "Permitted"
    /\ tool = "create_project"
    /\ ScopeText = <<" ", "execute:ansible", "\t", " ", "manage:ansible", "\n">>
    /\ identity = req.ctx.token.claims

\* The mapping a scope denial carries: the JSON object check_scope raises
IsDenial(e) ==
    /\ e # Nil
    /\ e.cls = "Exception"
    /\ e.msg.kind = "json"
    /\ e.msg.type = "object"

\* The tool returned a mapping with error_type insufficient_scope.
ReturnedDenial ==
    /\ pc = "done"
    /\ result.ok
    /\ result.value.type = "dict"
    /\ "error_type" \in DOMAIN result.value.value
    /\ result.value.value["error_type"] = "insufficient_scope"

\* C8: when the required scope is not among the verified credential's granted
\* scopes, check_scope raises a denial whose required_scope is the scope asked
\* for and whose user_scopes is the scope claim split on whitespace, in order;
\* a denial a tool returns carries the same two values.
C8_DenialScopes ==
    /\ (pc \in {"Permitted", "Denied"} /\ RequiredScope(tool) \notin Granted) =>
          /\ pc = "Denied"
          /\ IsDenial(fault)
          /\ fault.msg.value["required_scope"] = RequiredScope(tool)
          /\ fault.msg.value["user_scopes"] = WordsOf(ScopeText)
    /\ ReturnedDenial =>
          /\ result.value.value["required_scope"] = RequiredScope(tool)
          /\ result.value.value["user_scopes"] = WordsOf(ScopeText)

C8_Witness ==
    /\ pc = "Denied"
    /\ tool = "list_jobs"
    /\ ScopeText = <<" ", "execute:ansible", "\t", " ", "manage:ansible", "\n">>
    /\ fault.msg.value["user_scopes"] = <<"execute:ansible", "manage:ansible">>

DenialKeys ==
    {"success", "error_type", "error", "required_scope", "user_scopes",
     "scope_upgrade_endpoint", "scope_description", "upgrade_instructions",
     "upgrade_example"}

\* The description the table gives a scope, or the generic fallback
DescriptionOf(scope) ==
    IF scope = "read:files"
    THEN "Read access to Ansible resources (inventories, job templates, jobs)"
    ELSE IF scope = "execute:commands"
    THEN "Execute and manage Ansible operations (run jobs, create projects)"
    ELSE "Access to " \o scope

\* C9: whatever a scope-gated tool returns after a scope denial is the full
\* payload: success false, error_type insufficient_scope, the upgrade endpoint
\* at the authority, the description of the required scope (table entry or
\* 'Access to <scope>'), and an upgrade_example with method POST, the same url
\* and body.scopes = [required_scope].
C9_DenialPayload ==
    /\ (pc = "done" /\ tool \in GatedTools /\ IsDenial(fault) /\ result.ok) =>
          /\ result.value.type = "dict"
          /\ LET r == result.value.value IN
             /\ DOMAIN r = DenialKeys
             /\ r["success"] = FALSE
             /\ r["error_type"] = "insufficient_scope"
             /\ r["required_scope"] = RequiredScope(tool)
             /\ r["scope_upgrade_endpoint"] = "http://localhost:8002/api/upgrade-scope"
             /\ r["scope_description"] = DescriptionOf(RequiredScope(tool))
             /\ r["upgrade_example"]["method"] = "POST"
             /\ r["upgrade_example"]["url"] = r["scope_upgrade_endpoint"]
             /\ r["upgrade_example"]["body"] = [scopes |-> <<RequiredScope(tool)>>]
    /\ \A sc \in {"read:files", "execute:commands", "read:ansible", "manage:ansible"} :
          get_scope_description(sc) = DescriptionOf(sc)

C9_Witness ==
    /\ ReturnedDenial
    /\ tool = "run_job"
    /\ result.value.value["scope_description"] = "Access to execute:ansible"
    /\ result.value.value["upgrade_example"]["body"] = [scopes |-> <<"execute:ansible">>]

\* C10: after a verification or scope failure every tool returns a mapping
\* with success = false; the failure never leaves the tool as a raised fault.
C10_FailuresReturnedNotRaised ==
    (pc = "done" /\ fault # Nil) =>
        /\ result.ok
        /\ result.value.type = "dict"
        /\ "success" \in DOMAIN result.value.value
        /\ result.value.value["success"] = FALSE

(***************************************************************************)
(* What the properties say about the Insights adapter's calls              *)
(***************************************************************************)
\* Caller c takes a step.
Moves(c) == task'[c] # task[c]

\* The cache holds a token whose cached expiry lies ahead.
Usable ==
    /\ access_token # "None"
    /\ token_expires_at # <<>>
    /\ clock < token_expires_at[1]

\* get_access_token of caller c returns without an exchange in this step.
ReturnsCached(c) ==
    /\ task[c].pc = "get_access_token"
    /\ Moves(c)
    /\ task'[c].pc # "awaiting_token"

\* get_access_token of caller c returns after its exchange in this step.
ReturnsFresh(c) ==
    /\ task[c].pc = "awaiting_token"
    /\ Moves(c)
    /\ task'[c].pc # "done"

\* get_access_token of caller c raises out of its exchange in this step.
FailsExchange(c) ==
    /\ task[c].pc = "awaiting_token"
    /\ Moves(c)
    /\ task'[c].pc = "done"

\* The authority's record of token tok
RecordOf(tok) == CHOOSE e \in issued : e.token = tok

\* The seconds for which the authority still honours tok
ValidityLeft(tok) == RecordOf(tok).at + RecordOf(tok).lifetime - clock

\* C11: whenever get_access_token returns a token, from the cache or fresh
\* from an exchange, the token is honoured by the authority for at least 60
\* more seconds at the instant of the return, whatever lifetime the authority
\* granted.  (Both returns hand out the token the cache holds after them.)
C11_ReturnedTokenHasBuffer ==
    [][\A c \in Callers :
          (ReturnsCached(c) \/ ReturnsFresh(c)) => (ValidityLeft(access_token) >= 60)'
      ]_allvars

\* C12: when a token is cached and the clock is before the cached expiry,
\* get_access_token returns the cached token without an exchange and leaves
\* the cache as it is; a call that needs the token for a request holds that
\* token afterwards.
C12_CachedTokenReused ==
    [][\A c \in Callers :
          (task[c].pc = "get_access_token" /\ Usable /\ Moves(c)) =>
              /\ task'[c].posts = task[c].posts
              /\ task'[c].pc # "awaiting_token"
              /\ access_token' = access_token
              /\ token_expires_at' = token_expires_at
              /\ task[c].phase = "make_request" =>
                    /\ task'[c].pc = "request"
                    /\ task'[c].token = access_token
      ]_allvars

\* A second call holds the token the first call cached, without an exchange
\* of its own.
C12_Witness ==
    /\ started = 2
    /\ task[1].pc = "idle"
    /\ task[2].pc = "request"
    /\ task[2].posts = 0
    /\ task[2].token = access_token
    /\ clock = 30
    /\ token_expires_at = <<60>>

\* C13: a get_access_token call made after the cached expiry has passed
\* posts one exchange, and no second one; when the exchange yields a token
\* the cached expiry becomes the instant of storing plus the granted
\* lifetime minus 60.
C13_RenewalAfterExpiry ==
    [][\A c \in Callers :
          /\ (/\ task[c].pc = "get_access_token"
              /\ token_expires_at # <<>>
              /\ clock > token_expires_at[1]
              /\ Moves(c)) =>
                 /\ task'[c].pc = "awaiting_token"
                 /\ task'[c].posts = task[c].posts + 1
          /\ (task[c].pc = "awaiting_token" /\ Moves(c)) =>
                 task'[c].posts = task[c].posts
          /\ ReturnsFresh(c) =>
                 token_expires_at' = <<clock + RecordOf(access_token)'.lifetime - 60>>
      ]_allvars

\* A token granted for 120 seconds was stored at 0 and expired at 60; the
\* call made at 240 has posted its exchange.
C13_Witness ==
    /\ access_token = "tok1"
    /\ token_expires_at = <<60>>
    /\ RecordOf("tok1").lifetime = 120
    /\ clock = 240
    /\ started = 2
    /\ \E c \in Callers : task[c].pc = "awaiting_token" /\ task[c].posts = 1

\* The lifetime a token response names, 300 when it names none
NamedLifetime(r) == IF "expires_in" \in DOMAIN r.json THEN r.json["expires_in"] ELSE 300

\* The responses of the authority that carry a token
Grants == {r \in Answers(issued) : r.status_code = 200 /\ "access_token" \in DOMAIN r.json}

\* C14: for every successful exchange response, at every instant and
\* whatever the cache held, get_access_token stores the response's
\* access_token, sets the cached expiry to the instant plus expires_in minus
\* 60 (plus 240 when the response names no expires_in), and returns the token
\* it has just stored.
C14_StoreOnSuccess ==
    \A r \in Grants :
        LET s == store_token(r, access_token, token_expires_at, clock) IN
        /\ s.access_token = r.json["access_token"]
        /\ s.token_expires_at = <<clock + NamedLifetime(r) - 60>>
        /\ "expires_in" \notin DOMAIN r.json => s.token_expires_at = <<clock + 240>>
        /\ s.out = [ok |-> TRUE, value |-> s.access_token]

\* A response without expires_in was stored at instant 30: the cache expires
\* at 270, and the call holds the stored token.
C14_Witness ==
    /\ clock = 30
    /\ access_token = "tok1"
    /\ token_expires_at = <<270>>
    /\ RecordOf("tok1").at = 30
    /\ \E c \in Callers :
          /\ task[c].pc = "request"
          /\ task[c].posts = 1
          /\ task[c].token = "tok1"

\* C15: a caller that finds no usable cached token posts an exchange of its
\* own even while another caller's exchange is in flight, and every caller
\* whose exchange yields a token overwrites the cached token and expiry with
\* those of its own response, whatever another caller stored before.
C15_NoSingleFlight ==
    [][\A c \in Callers :
          /\ (/\ task[c].pc = "get_access_token"
              /\ ~Usable
              /\ \E d \in Callers \ {c} : task[d].pc = "awaiting_token"
              /\ Moves(c)) =>
                 /\ task'[c].pc = "awaiting_token"
                 /\ task'[c].posts = task[c].posts + 1
          /\ ReturnsFresh(c) =>
                 /\ access_token' \notin {e.token : e \in issued}
                 /\ RecordOf(access_token)'.at = clock
                 /\ token_expires_at' = <<clock + RecordOf(access_token)'.lifetime - 60>>
      ]_allvars

\* Both callers found the cache empty and posted; the first stored tok1 with
\* a lifetime of 300, the second overwrote it with tok2 and a lifetime of 120.
C15_Witness ==
    /\ task[1].pc = "request" /\ task[1].posts = 1 /\ task[1].token = "tok1"
    /\ task[2].pc = "request" /\ task[2].posts = 1 /\ task[2].token = "tok2"
    /\ RecordOf("tok1").at = 0 /\ RecordOf("tok1").lifetime = 300
    /\ RecordOf("tok2").at = 0
    /\ access_token = "tok2"
    /\ token_expires_at = <<60>>

\* C16: every token a call holds was issued by the authority in a successful
\* exchange, and a cached token is one of the issued tokens together with the
\* expiry computed from that token's own response (the instant it was stored
\* plus its lifetime minus 60).
C16_RaceIsBenign ==
    /\ \A c \in Callers :
          task[c].token # "None" => \E e \in issued : e.token = task[c].token
    /\ access_token # "None" =>
          /\ token_expires_at # <<>>
          /\ \E e \in issued :
                /\ e.token = access_token
                /\ token_expires_at[1] = e.at + e.lifetime - 60
    /\ access_token = "None" => token_expires_at = <<>>

\* Both callers raced and have finished with different tokens; the cache
\* holds the second one's.
C16_Witness ==
    /\ task[1].pc = "done" /\ task[1].posts = 1 /\ task[1].token = "tok1"
    /\ task[2].pc = "done" /\ task[2].posts = 1 /\ task[2].token = "tok2"
    /\ RecordOf("tok1").lifetime = 300
    /\ access_token = "tok2"
    /\ token_expires_at = <<-30>>

\* The responses of the authority whose status is not 200
NonOk == {r \in Answers(issued) : r.status_code # 200}

\* The fault get_access_token raises for a response whose status is not 200
AcquisitionFault(r) ==
    [cls |-> "Exception",
     msg |-> [kind |-> "text",
              text |-> "Failed to get access token: "
                         \o ToString(r.status_code) \o " " \o r.text]]

\* C17: for every exchange response whose status is not 200, get_access_token
\* raises a fault whose message carries the status code and the response
\* body, returns no token and leaves the cache as it was; a tool without an
\* except clause ends with that fault.
C17_ExchangeFailureRaises ==
    /\ \A r \in NonOk :
          LET s == store_token(r, access_token, token_expires_at, clock) IN
          /\ ~s.out.ok
          /\ s.out.exc = AcquisitionFault(r)
          /\ s.access_token = access_token
          /\ s.token_expires_at = token_expires_at
    /\ \A c \in Callers :
          (/\ task[c].pc = "done"
           /\ task[c].tool = "list_systems"
           /\ task[c].token = "None"
           /\ task[c].result.exc.cls = "Exception") =>
              /\ \E r \in NonOk : task[c].result.exc = AcquisitionFault(r)
              /\ task[c].posts = 1

\* The exchange of a list_systems call was answered 401 invalid_client.
C17_Witness ==
    /\ \E c \in Callers :
          /\ task[c].pc = "done"
          /\ task[c].tool = "list_systems"
          /\ task[c].token = "None"
          /\ task[c].posts = 1
          /\ ~task[c].result.ok
          /\ task[c].result.exc.msg.text = "Failed to get access token: 401 invalid_client"
    /\ access_token = "None"

\* The call of caller c ended without get_access_token handing make_request
\* a token: an exchange of the call failed.
AcquisitionFailed(c) ==
    /\ task[c].pc = "done"
    /\ task[c].token = "None"

\* C18 as stated: a token-acquisition failure leaves whatever tool call
\* triggered it as a raised fault, not as a result value, and the call has
\* sent no API request.
C18_AsStated ==
    \A c \in Callers :
        AcquisitionFailed(c) =>
            /\ ~task[c].result.ok
            /\ task[c].sent = <<>>

\* C18: a token-acquisition failure leaves every tool but test_authentication
\* as the raised fault; test_authentication returns a mapping with status
\* "error" and a message that begins "Authentication failed: " followed by the
\* fault's message; in both cases the call has sent no API request.
C18_FailurePropagates ==
    \A c \in Callers :
        AcquisitionFailed(c) =>
            /\ task[c].sent = <<>>
            /\ task[c].posts >= 1
            /\ task[c].tool # "test_authentication" =>
                  /\ ~task[c].result.ok
                  /\ task[c].result.exc.cls \in {"Exception", "KeyError"}
            /\ task[c].tool = "test_authentication" =>
                  /\ task[c].result.ok
                  /\ task[c].result.value.type = "dict"
                  /\ DOMAIN task[c].result.value.value = {"status", "message"}
                  /\ task[c].result.value.value["status"] = "error"
                  /\ task[c].result.value.value["message"] \in
                        {"Authentication failed: Failed to get access token: 401 invalid_client",
                         "Authentication failed: 'access_token'"}

\* One call of each kind ended by a refused exchange: list_systems raised,
\* test_authentication returned the error mapping.
C18_Witness ==
    /\ task[1].pc = "done" /\ task[1].tool = "list_systems"
    /\ task[1].token = "None" /\ ~task[1].result.ok
    /\ task[2].pc = "done" /\ task[2].tool = "test_authentication"
    /\ task[2].token = "None" /\ task[2].result.ok
    /\ task[2].result.value.value["status"] = "error"

\* C19: every API request a call has sent carries the Authorization header
\* "Bearer " followed by the token that get_access_token returned to the
\* make_request that sent it; a call sends at most one request, and none
\* before that token is in hand.
C19_RequestCarriesReturnedToken ==
    \A c \in Callers :
        /\ Len(task[c].sent) <= 1
        /\ task[c].sent # <<>> =>
              /\ task[c].pc = "done"
              /\ task[c].token # "None"
              /\ task[c].sent[1]["Authorization"] = "Bearer " \o task[c].token
        /\ task[c].pc = "request" =>
              /\ task[c].token # "None"
              /\ task[c].phase = "make_request"

\* A request went out with tok1 after another caller had replaced the cached
\* token by tok2.
C19_Witness ==
    /\ task[1].pc = "done"
    /\ task[1].token = "tok1"
    /\ task[1].sent = <<[Authorization |-> "Bearer tok1", ContentType |-> "application/json"]>>
    /\ access_token = "tok2"

\* C20: the four server-info tools ask for no scope.  A call with a
\* credential that passes verify returns the tool's mapping, which carries no
\* success = false, whatever the scope claim holds (absent and empty
\* included); a call with any other credential returns a mapping with
\* success = false.  Neither sends an upstream request.
C20_InfoToolsNeedNoScope ==
    (/\ pc = "done"
     /\ tool \in {"get_server_info", "get_oauth_metadata", "health_check", "list_tool_scopes"}) =>
        /\ result.ok
        /\ result.value.type = "dict"
        /\ sent = 0
        /\ ~Logged("authorize")
        /\ LET r == result.value.value IN
           IF ValidCredential
           THEN /\ fault = Nil
                /\ "success" \in DOMAIN r => r["success"] # FALSE
                /\ "error" \notin DOMAIN r
                /\ tool \in {"get_server_info", "get_oauth_metadata"} =>
                      r["authenticated_user"] = ClaimOf("email")
                /\ tool \in {"health_check", "list_tool_scopes"} =>
                      r["checked_by"] = ClaimOf("email")
                /\ tool \in {"get_server_info", "list_tool_scopes"} =>
                      r["user_scopes"] = WordsOf(ScopeText)
           ELSE /\ fault # Nil
                /\ DOMAIN r = {"success", "error"}
                /\ r["success"] = FALSE

\* get_server_info returned its mapping for a verified credential that has
\* no scope claim at all.
C20_Witness ==
    /\ pc = "done"
    /\ tool = "get_server_info"
    /\ ValidCredential
    /\ "scope" \notin DOMAIN req.ctx.token.claims
    /\ result.ok
    /\ result.value.value["user_scopes"] = <<>>
    /\ "success" \notin DOMAIN result.value.value

\* The cache changes in this step.
CacheChanges == <<access_token, token_expires_at>>' # <<access_token, token_expires_at>>

\* C21: a cached token is never reset to absent, nor its expiry; and every
\* step that changes the cache puts there the token of a newer successful
\* exchange together with the expiry of that exchange (the instant of the
\* step plus the token's lifetime minus 60).
C21_CacheOnlyRenewed ==
    [][/\ access_token # "None" => access_token' # "None"
       /\ token_expires_at # <<>> => token_expires_at' # <<>>
       /\ CacheChanges =>
             /\ access_token' \notin {e.token : e \in issued}
             /\ RecordOf(access_token)'.at = clock
             /\ token_expires_at' = <<clock + RecordOf(access_token)'.lifetime - 60>>
      ]_allvars

\* C24: for every exchange response that fails (a status other than 200, or
\* a 200 without access_token), at every instant and whatever the cache
\* holds, get_access_token raises and leaves cached token and cached expiry
\* as they were; and in every state, after failures too, a cache that is
\* absent or expired is no hit, and a 200 response with a token then makes
\* get_access_token return that token.
C24_FailureLeavesCache ==
    /\ \A r \in Answers(issued) :
          (r.status_code # 200 \/ "access_token" \notin DOMAIN r.json) =>
              LET s == store_token(r, access_token, token_expires_at, clock) IN
              /\ ~s.out.ok
              /\ s.access_token = access_token
              /\ s.token_expires_at = token_expires_at
    /\ ~Usable =>
          /\ ~cache_valid(access_token, token_expires_at, clock)
          /\ \A g \in Grants :
                store_token(g, access_token, token_expires_at, clock).out
                    = [ok |-> TRUE, value |-> g.json["access_token"]]

\* The first call's exchange failed and left the cache empty; the second
\* call exchanged and holds the token it stored.
C24_Witness ==
    /\ started = 2
    /\ task[1].pc = "done" /\ task[1].token = "None" /\ task[1].posts = 1
    /\ task[1].tool = "list_systems"
    /\ task[1].result.exc.cls = "KeyError"
    /\ task[2].pc = "request" /\ task[2].posts = 1 /\ task[2].token = "tok1"
    /\ access_token = "tok1"
    /\ token_expires_at = <<clock + 240>>

\* C25: in every reachable state the cached token and the cached expiry are
\* both absent or both present, and when present the expiry is the one
\* computed from the response that brought the cached token.
C25_TokenAndExpiryTogether ==
    /\ (access_token = "None") <=> (token_expires_at = <<>>)
    /\ token_expires_at # <<>> =>
          \E e \in issued :
             /\ e.token = access_token
             /\ token_expires_at = <<e.at + e.lifetime - 60>>

\* C30: the cache test is strict.  A call made at or after the cached expiry
\* posts an exchange; a response with expires_in of 60 or less stores an
\* expiry that is not in the future and makes no hit at the instant of
\* storing; and a cached token whose lifetime was 60 or less is never a hit.
C30_StrictValidity ==
    /\ [](/\ ~cache_valid("tok1", <<clock>>, clock)
          /\ \A ttl \in {30, 60} :
                LET s == store_token(Grant("tok1", <<ttl>>), access_token,
                                     token_expires_at, clock) IN
                /\ s.token_expires_at[1] <= clock
                /\ ~cache_valid(s.access_token, s.token_expires_at, clock)
          /\ (access_token # "None" /\ RecordOf(access_token).lifetime <= 60) =>
                /\ token_expires_at[1] <= clock
                /\ ~cache_valid(access_token, token_expires_at, clock))
    /\ [][\A c \in Callers :
             (/\ task[c].pc = "get_access_token"
              /\ token_expires_at # <<>>
              /\ clock >= token_expires_at[1]
              /\ Moves(c)) =>
                 /\ task'[c].pc = "awaiting_token"
                 /\ task'[c].posts = task[c].posts + 1
         ]_allvars

\* A 120-second token was stored at 0; the call made exactly at its cached
\* expiry, 60, has posted an exchange.
C30_Witness ==
    /\ clock = 60
    /\ token_expires_at = <<60>>
    /\ access_token = "tok1"
    /\ started = 2
    /\ \E c \in Callers : task[c].pc = "awaiting_token" /\ task[c].posts = 1

\* The variable is unset or set to the empty string.
Unset(name) == name \notin DOMAIN environ \/ environ[name] = ""

\* The mandatory credential of adapter a is absent or empty.
LacksCredential(a) ==
    IF a = "ansible_auth_mcp" THEN Unset("AAP_TOKEN")
    ELSE Unset("INSIGHTS_CLIENT_ID") \/ Unset("INSIGHTS_CLIENT_SECRET")

\* C22: an adapter whose mandatory credential is absent or empty (AAP_TOKEN;
\* INSIGHTS_CLIENT_ID or INSIGHTS_CLIENT_SECRET) never gets past its module
\* load: it has no server object and no registered tool, it never serves,
\* and once its load has run it has ended with a ValueError.
C22_FailFast ==
    \A a \in {"ansible_auth_mcp", "redhat_insights_mcp"} :
        LacksCredential(a) =>
            /\ process[a].pc \in {"loading", "refused"}
            /\ process[a].mcp = FALSE
            /\ process[a].tools = {}
            /\ process[a].pc = "refused" => process[a].error.cls = "ValueError"

\* The Insights adapter was refused for an empty client secret while the
\* automation-platform adapter serves.
C22_Witness ==
    /\ "INSIGHTS_CLIENT_ID" \in DOMAIN environ /\ environ["INSIGHTS_CLIENT_ID"] = "s3cret"
    /\ "INSIGHTS_CLIENT_SECRET" \in DOMAIN environ /\ environ["INSIGHTS_CLIENT_SECRET"] = ""
    /\ process["redhat_insights_mcp"].pc = "refused"
    /\ process["redhat_insights_mcp"].tools = {}
    /\ process["ansible_auth_mcp"].pc = "serving"

\* handle_scope_error has been applied to the message.
Handled == handling.pc = "left"

\* C29: for every error message (a JSON object with error_type
\* insufficient_scope, a JSON object of another shape, JSON that is not an
\* object, text that is not JSON) handle_scope_error returns a mapping whose
\* success is false, and never raises.
C29_HandlerTotal ==
    Handled =>
        /\ handling.out.ok
        /\ "success" \in DOMAIN handling.out.value
        /\ handling.out.value["success"] = FALSE

\* The scope names the adapter advertises
Advertised == {"read:files", "execute:commands"}

\* The scope names the tools pass to check_scope
Enforced == {RequiredScope(t) : t \in GatedTools}

TableEntries == {scope_descriptions[k] : k \in DOMAIN scope_descriptions}

\* The tool returned its own mapping, after verification succeeded.
Informed(t) == pc = "done" /\ tool = t /\ fault = Nil /\ result.ok

\* C23: the scope names the adapter advertises (the description table,
\* scopes_supported of get_oauth_metadata, available_scopes of
\* list_tool_scopes) are read:files and execute:commands, and none of them is
\* a scope a tool enforces; so a valid credential granting exactly the
\* advertised scopes is denied by every scope-gated tool and no upstream
\* request is sent for it, and every denial, raised or returned, describes
\* its scope as 'Access to <scope>' and never with a table entry.
C23_AdvertisedScopesNotEnforced ==
    /\ DOMAIN scope_descriptions = Advertised
    /\ Enforced = {"read:ansible", "execute:ansible", "manage:ansible"}
    /\ Advertised \cap Enforced = {}
    /\ Informed("get_oauth_metadata") =>
          {result.value.value["scopes_supported"][i] : i \in 1..2} = Advertised
    /\ Informed("list_tool_scopes") =>
          {result.value.value["available_scopes"][i] : i \in 1..2} = Advertised
    /\ (tool \in GatedTools /\ pc \in {"Permitted", "Denied", "done"}
          /\ ValidCredential /\ Granted = Advertised) =>
          /\ pc # "Permitted"
          /\ IsDenial(fault)
          /\ sent = 0
    /\ (tool \in GatedTools /\ IsDenial(fault)) =>
          /\ fault.msg.value["scope_description"] = "Access to " \o RequiredScope(tool)
          /\ fault.msg.value["scope_description"] \notin TableEntries
    /\ ReturnedDenial =>
          /\ result.value.value["scope_description"] = "Access to " \o RequiredScope(tool)
          /\ result.value.value["scope_description"] \notin TableEntries

\* A credential granting exactly the advertised scopes was denied by a read
\* tool, which returned the denial with the generic description.
C23_Witness ==
    /\ ReturnedDenial
    /\ tool = "list_inventories"
    /\ ValidCredential
    /\ ScopeText = <<"read:files", " ", "execute:commands">>
    /\ result.value.value["user_scopes"] = <<"read:files", "execute:commands">>
    /\ result.value.value["scope_description"] = "Access to read:ansible"

\* The token's exp lies leeway seconds or more in the past.
Expired == HasExp /\ ExpAge >= leeway

\* The first defect of the request in the order: header, token and
\* signature, expiry, audience, issuer; Nil when verify finds none.
FirstDefect ==
    IF ~BearerScheme THEN MissingError
    ELSE IF ~Presented \/ ~WellSigned THEN MalformedError
    ELSE IF Expired THEN ExpiredError
    ELSE IF ~AudOk THEN AudienceError
    ELSE IF ~IssOk THEN IssuerError
    ELSE Nil

\* The tool's required scope is not among the granted scopes.
LacksScope == tool \in GatedTools /\ RequiredScope(tool) \notin Granted

\* C26: a request with several defects is reported with exactly one error,
\* the first in the order missing or non-bearer header, undecodable or badly
\* signed token, expired, audience mismatch, issuer mismatch, insufficient
\* scope: a verify defect fails the call with its error whatever the later
\* defects are, and a scope denial is raised only for a request without any
\* verify defect.
C26_ErrorPrecedence ==
    Checked =>
        /\ FirstDefect # Nil =>
              /\ FailedWith(FirstDefect)
              /\ ~IsDenial(fault)
        /\ FirstDefect = Nil =>
              /\ pc # "Failed"
              /\ pc = "Authenticated" => fault = Nil
              /\ pc \in {"Permitted", "Denied"} =>
                    (IF LacksScope THEN pc = "Denied" /\ IsDenial(fault)
                     ELSE pc = "Permitted" /\ fault = Nil)
        /\ pc = "Denied" => FirstDefect = Nil /\ LacksScope

\* An expired token with a wrong audience and a wrong issuer, presented to a
\* tool whose scope it lacks, was reported as expired.
C26_Witness ==
    /\ pc = "Failed"
    /\ Presented /\ WellSigned
    /\ Expired
    /\ ~AudOk /\ ~IssOk
    /\ LacksScope
    /\ fault = ExpiredError

\* check_scope has decided on the verified credential.
Decided == tool \in GatedTools /\ pc \in {"Permitted", "Denied"}

\* Chunk i of the scope claim begins the very word w, whitespace or the
\* text's ends on both sides.
WordAt(s, i, w) ==
    /\ i = 1 \/ IsWs(s[i - 1])
    /\ \E j \in i..Len(s) :
          /\ \A k \in i..j : ~IsWs(s[k])
          /\ j = Len(s) \/ IsWs(s[j + 1])
          /\ Glue(s, i, j) = w

\* C27: scope matching is exact membership: check_scope permits only when a
\* whitespace-separated element of the scope claim equals the required scope;
\* manage:ansible alone grants neither read:ansible nor execute:ansible, a
\* longer name with the required scope as prefix grants nothing, and an
\* absent or empty scope claim is denied for every required scope with
\* user_scopes = [].
C27_ExactScopeMatch ==
    Decided =>
        /\ pc = "Permitted" <=>
              \E i \in 1..Len(ScopeText) : WordAt(ScopeText, i, RequiredScope(tool))
        /\ (Granted = {"manage:ansible"} /\ RequiredScope(tool) # "manage:ansible") =>
              pc = "Denied"
        /\ ScopeText = <<"read:ansible", ":extra">> => pc = "Denied"
        /\ ScopeText = <<>> =>
              /\ pc = "Denied"
              /\ IsDenial(fault)
              /\ fault.msg.value["user_scopes"] = <<>>
              /\ fault.msg.value["required_scope"] = RequiredScope(tool)

\* A credential granting manage:ansible alone was denied by a read tool.
C27_Witness ==
    /\ pc = "Denied"
    /\ tool = "list_inventories"
    /\ ScopeText = <<"manage:ansible">>
    /\ fault.msg.value["user_scopes"] = <<"manage:ansible">>
    /\ fault.msg.value["required_scope"] = "read:ansible"

\* Instants far apart, the last one years after the first
Instants == {0, 1, leeway, leeway + 1, 2 * leeway, 400 * leeway}

\* Requests whose token is well signed, has the right aud and iss and
\* carries no exp
Perpetual ==
    {c \in Contexts :
        /\ c.headers = ("authorization" :> <<"Bearer", " ", TOKEN>>)
        /\ c.token.alg = GoodSig.alg /\ c.token.sig = GoodSig.sig
        /\ "exp" \notin DOMAIN c.token.claims
        /\ Get(c.token.claims, "aud", None) = SERVER_URI
        /\ Get(c.token.claims, "iss", None) = AUTH_SERVER_URI}

\* C28: a correctly signed token with matching aud and iss and no exp claim
\* is accepted by verify at every instant: every call presenting it is
\* verified with the token's claims and none of them fails, however late.
C28_NoExpNeverExpires ==
    /\ (Checked /\ Presented /\ WellSigned /\ AudOk /\ IssOk /\ ~HasExp) =>
          /\ Accepted
          /\ pc # "Failed"
          /\ fault # Nil => IsDenial(fault)
    /\ \A c \in Perpetual : \A t \in Instants :
          /\ verify_token_from_context(c, t).ok
          /\ verify_token_from_context(c, t).value = c.token.claims

\* A token without exp was accepted after the clock had run on.
C28_Witness ==
    /\ pc = "Authenticated"
    /\ now = leeway + MaxTicks
    /\ Presented /\ WellSigned /\ AudOk /\ IssOk
    /\ ~HasExp
    /\ identity = req.ctx.token.claims
    /\ req.ctx \in Perpetual

====
